---- MODULE Spec2Model ----
(***************************************************************************)
(* A model of src/app.py, the mock EOSDA backend: a Flask application      *)
(* whose handlers fabricate NDVI, weather and field-history responses       *)
(* from random draws and the clock.                                         *)
(*                                                                          *)
(* Numbers.  An NDVI value is an integer number of thousandths ("milli"):   *)
(* 0.7 is 700.  A value the code has rounded to 2 decimals is a multiple    *)
(* of 10.  The comparisons of the code on the floats and the comparisons    *)
(* of the model on the integers agree on every value the model draws.       *)
(*                                                                          *)
(* Time.  The clock is a day number (days since 1970-01-01); the code only  *)
(* uses the date part of datetime.now() in the fields modelled here.        *)
(*                                                                          *)
(* Left out of the responses: the fields no property below reads and that   *)
(* are independent random draws or constants (crop type, area, weather      *)
(* impact, rainfall, temperature, activity, season, notes).                 *)
(***************************************************************************)
EXTENDS Integers, Sequences, FiniteSets, TLC

VARIABLES
    now,      \* the clock: today's day number
    active,   \* the request threads of this run (threaded=True: one per request)
    pc,       \* per thread: where its handler stands
    req,      \* per thread: the request it handles
    data,     \* per thread: analyze_field's local `data`
    ndvi,     \* per thread: analyze_field's local `ndvi` (milli, a multiple of 10)
    fname,    \* per thread: analyze_field's local `field_name`
    base,     \* per thread: field_history's local `base_date` (day number)
    i,        \* per thread: field_history's loop variable `i`
    history,  \* per thread: field_history's local `history`
    resp,     \* per thread: the response returned
    obs,      \* per thread: the random draws and clock readings it consumed
    served,   \* requests received so far
    cin,      \* SpecClassify: the NDVI value handed to the classifiers
    cout      \* SpecClassify: what the classifiers returned

vars == <<now, active, pc, req, data, ndvi, fname, base, i, history, resp, obs,
          served, cin, cout>>

\* ---------------------------------------------------------------- bounds

\* Requests received in one run.
MaxRequests == 2

\* Resolution of the NDVI values handed to the classifiers in SpecClassify:
\* cin ranges over 0..ClassifyMax thousandths.
ClassifyMax == 1000

Workers == {"w1", "w2"}

\* ------------------------------------------------- NDVI classification

\* get_ndvi_color with the thresholds themselves taken into the upper band.
get_ndvi_color_inclusive(ndvi_value) ==
    IF ndvi_value >= 700 THEN <<"#00ff00", "Excellent", "excellent">>
    ELSE IF ndvi_value >= 500 THEN <<"#aaff00", "Good", "good">>
    ELSE IF ndvi_value >= 300 THEN <<"#ffff00", "Moderate", "moderate">>
    ELSE <<"#ff0000", "Poor", "poor">>

\* get_ndvi_color: (color, status label, class tag); thresholds in milli.
get_ndvi_color(ndvi_value) ==
    IF ndvi_value > 700 THEN <<"#00ff00", "Excellent", "excellent">>
    ELSE IF ndvi_value > 500 THEN <<"#aaff00", "Good", "good">>
    ELSE IF ndvi_value > 300 THEN <<"#ffff00", "Moderate", "moderate">>
    ELSE <<"#ff0000", "Poor", "poor">>

InterpVeryHigh == "Very high vegetation density. Likely healthy, dense crops or forest."
InterpHigh == "Moderate to high vegetation. Typical of healthy agricultural fields."
InterpModerate == "Moderate vegetation. May indicate stress or sparse crop cover."
InterpLow == "Low vegetation. Could be bare soil, senescing crops, or urban areas."
InterpNone == "Very low or no vegetation. Possibly water, snow, or barren land."

get_ndvi_interpretation(v) ==
    IF v > 700 THEN InterpVeryHigh
    ELSE IF v > 500 THEN InterpHigh
    ELSE IF v > 300 THEN InterpModerate
    ELSE IF v > 100 THEN InterpLow
    ELSE InterpNone

RecsExcellent ==
    << "Excellent crop health! Maintain current practices.",
       "Optimal growth conditions detected.",
       "Consider harvesting in 2-3 weeks.",
       "Monitor soil moisture for consistency." >>
RecsGood ==
    << "Good vegetation health observed.",
       "Consider light fertilization in 10-14 days.",
       "Maintain current irrigation schedule.",
       "Check for early signs of pest activity." >>
RecsModerate ==
    << "Moderate stress detected in some areas.",
       "Increase irrigation frequency by 20%.",
       "Test soil for nutrient deficiencies.",
       "Consider adding organic compost." >>
RecsPoor ==
    << "Immediate attention required!",
       "Severe vegetation stress detected.",
       "Increase irrigation immediately.",
       "Conduct comprehensive soil testing.",
       "Consult agricultural expert if condition persists." >>

\* The recommendation chain drifted from the classifier: >= for >.
RecommendationsInclusive(v) ==
    IF v >= 700 THEN RecsExcellent
    ELSE IF v >= 500 THEN RecsGood
    ELSE IF v >= 300 THEN RecsModerate
    ELSE RecsPoor

\* The if/elif chain of analyze_field that picks the recommendation list.
Recommendations(v) ==
    IF v > 700 THEN RecsExcellent
    ELSE IF v > 500 THEN RecsGood
    ELSE IF v > 300 THEN RecsModerate
    ELSE RecsPoor

\* The conditional expression of field_history that labels an entry.
HealthLabel(v) ==
    IF v > 500 THEN "Good" ELSE IF v > 300 THEN "Moderate" ELSE "Poor"

\* ------------------------------------------------------------ rounding

\* round(x, 2) of a value given in milli, as the set of results it can have:
\* the nearest multiple of 10; a value halfway between two stands for the
\* floats around it, which round either way.
Round2(m) ==
    IF m % 10 = 5 THEN {m - 5, m + 5}
    ELSE {((m + 5) \div 10) * 10}

Max(a, b) == IF a >= b THEN a ELSE b
Min(a, b) == IF a <= b THEN a ELSE b

\* min_ndvi without its clamp at 0.1.
MinNdviUnclamped(v) == v - 200

\* statistics.min_ndvi and statistics.max_ndvi of analyze_field. The argument
\* is a multiple of 10, and so are ndvi - 0.2 and ndvi + 0.15 after rounding.
MinNdvi(v) == CHOOSE r \in Round2(Max(100, v - 200)) : TRUE
MaxNdvi(v) == CHOOSE r \in Round2(Min(1000, v + 150)) : TRUE

\* --------------------------------------------------------------- dates

\* The civil date (year, month, day) of a day number, as datetime computes it
\* in the proleptic Gregorian calendar.
CivilFromDays(z0) ==
    LET z == z0 + 719468
        era == z \div 146097
        doe == z - era * 146097
        yoe == (doe - doe \div 1460 + doe \div 36524 - doe \div 146096) \div 365
        doy == doe - (365 * yoe + yoe \div 4 - yoe \div 100)
        mp == (5 * doy + 2) \div 153
        d == doy - (153 * mp + 2) \div 5 + 1
        m == IF mp < 10 THEN mp + 3 ELSE mp - 9
        y == yoe + era * 400 + (IF m <= 2 THEN 1 ELSE 0)
    IN  <<y, m, d>>

Dash == -1

\* strftime("%d-%m-%Y"): the date written day first.
StrfDateDayFirst(day) ==
    LET c == CivilFromDays(day)
        y == c[1]
        m == c[2]
        d == c[3]
    IN  << d \div 10, d % 10, Dash, m \div 10, m % 10, Dash,
           (y \div 1000) % 10, (y \div 100) % 10, (y \div 10) % 10, y % 10 >>

\* strftime("%Y-%m-%d"): the ten characters of the date, a digit as itself
\* and "-" as Dash (which, like "-" among the ASCII digits, sorts first).
StrfDate(day) ==
    LET c == CivilFromDays(day)
        y == c[1]
        m == c[2]
        d == c[3]
    IN  << (y \div 1000) % 10, (y \div 100) % 10, (y \div 10) % 10, y % 10, Dash,
           m \div 10, m % 10, Dash, d \div 10, d % 10 >>

\* Python's < on two strings: the first differing character decides, and a
\* proper prefix is smaller.
RECURSIVE StrLess(_, _)
StrLess(a, b) ==
    IF b = <<>> THEN FALSE
    ELSE IF a = <<>> THEN TRUE
    ELSE IF Head(a) # Head(b) THEN Head(a) < Head(b)
    ELSE StrLess(Tail(a), Tail(b))

\* list.sort(key=lambda x: x['date']): a stable sort, here by insertion: an
\* entry goes after every entry whose date is not greater than its own.
RECURSIVE InsertByDate(_, _)
InsertByDate(sorted, e) ==
    IF sorted = <<>> THEN <<e>>
    ELSE IF StrLess(e.date, Head(sorted).date) THEN <<e>> \o sorted
    ELSE <<Head(sorted)>> \o InsertByDate(Tail(sorted), e)

RECURSIVE SortByDate(_)
SortByDate(h) ==
    IF h = <<>> THEN <<>>
    ELSE InsertByDate(SortByDate(SubSeq(h, 1, Len(h) - 1)), h[Len(h)])

\* ------------------------------------------------------------ requests

\* JSON values a body, `bounds` or `name` can hold, by name. "obj" is the
\* top-level object of a body, whose keys the request's has_* fields give.
JsonScalars ==
    {"null", "true", "false", "num_0", "num_5", "str_empty", "str_abc",
     "str_xboundsx", "list_empty", "list_a", "list_bounds", "list_square",
     "obj_empty"}

JType(tok) ==
    CASE tok = "null" -> "null"
      [] tok \in {"true", "false"} -> "bool"
      [] tok \in {"num_0", "num_5"} -> "num"
      [] tok \in {"str_empty", "str_abc", "str_xboundsx", "str_North"} -> "str"
      [] tok \in {"list_empty", "list_a", "list_bounds", "list_square"} -> "list"
      [] tok \in {"obj_empty", "obj"} -> "obj"

NoRequest ==
    [method |-> "", path |-> "", ctype_json |-> FALSE, body |-> "absent",
     has_bounds |-> FALSE, bounds |-> "null", has_name |-> FALSE,
     name |-> "null", has_other |-> FALSE, field_id |-> "absent"]

Get(path) == [NoRequest EXCEPT !.method = "GET", !.path = path]

\* POST /analyze-field with a body that is not a JSON object.
PostScalar(tok) ==
    [NoRequest EXCEPT !.method = "POST", !.path = "/analyze-field",
                      !.ctype_json = TRUE, !.body = tok]

\* POST /analyze-field with a JSON object.
PostObject(hb, b, hn, n, ho) ==
    [NoRequest EXCEPT !.method = "POST", !.path = "/analyze-field",
                      !.ctype_json = TRUE, !.body = "obj",
                      !.has_bounds = hb, !.bounds = b, !.has_name = hn,
                      !.name = n, !.has_other = ho]

Paths ==
    {"/", "/test-satellite", "/analyze-field", "/weather", "/field-history",
     "/health", "/nonexistent"}
Methods == {"GET", "POST", "OPTIONS", "PUT"}

BoundsValues ==
    {"list_square", "list_empty", "null", "num_5", "obj_empty", "str_abc", "true"}
NameValues == {"str_North", "null"}

AnalyzePosts ==
    {[NoRequest EXCEPT !.method = "POST", !.path = "/analyze-field"]}
    \cup {PostScalar(tok) : tok \in JsonScalars \cup {"malformed"}}
    \cup {PostObject(FALSE, "null", hn, "str_North", ho) : hn \in BOOLEAN, ho \in BOOLEAN}
    \cup {PostObject(TRUE, b, FALSE, "null", FALSE) : b \in BoundsValues}
    \cup {PostObject(TRUE, b, TRUE, n, TRUE) : b \in BoundsValues, n \in NameValues}

PlainRequests ==
    {[NoRequest EXCEPT !.method = m, !.path = p] : m \in Methods, p \in Paths}
    \cup {[Get("/field-history") EXCEPT !.field_id = "42"]}

\* With two requests in flight the inputs are a sample of the above.
Coarse == Cardinality(active) > 1

Requests ==
    IF Coarse
    THEN {Get("/field-history"), Get("/health"), Get("/weather"), Get("/"),
          Get("/test-satellite"), Get("/nonexistent"),
          [NoRequest EXCEPT !.method = "PUT", !.path = "/health"],
          [NoRequest EXCEPT !.method = "OPTIONS", !.path = "/weather"],
          [NoRequest EXCEPT !.method = "OPTIONS", !.path = "/analyze-field"],
          PostObject(TRUE, "list_square", FALSE, "null", FALSE),
          PostObject(TRUE, "null", FALSE, "null", FALSE),
          PostScalar("malformed")}
    ELSE AnalyzePosts \cup PlainRequests

\* ------------------------------------------------------- random draws

\* random.uniform(0.25, 0.85), in milli: every value that is a multiple of
\* 0.005, so every rounding result and every halfway case.
UniformDraws == IF Coarse THEN {250, 705} ELSE {250 + 5 * k : k \in 0..120}

\* random.random() of field_history, in thousandths.
RandomDraws == IF Coarse THEN {406} ELSE {0, 4, 406}

\* random.randint(1000, 9999)
RandintDraws == {1000, 9999}

\* The days datetime.now() can show.
\* 2024-04-15 (the 90 days before it hold 29 February) and 2025-02-01 (they
\* hold the turn of the year).
ClockDays == {19828, 20120}

\* --------------------------------------------------------- the framework

\* request.json (Flask's Request.get_json) on a request, as the set of its
\* outcomes: without a JSON content type it returns None (Flask before 2.1) or
\* raises (415, since 2.1); an unparseable body raises BadRequest; else the
\* parsed value.
GetJson(r) ==
    IF ~r.ctype_json
    THEN {[raised |-> FALSE, val |-> "null", exc |-> ""],
          [raised |-> TRUE, val |-> "null", exc |-> "UnsupportedMediaType"]}
    ELSE IF r.body = "malformed"
    THEN {[raised |-> TRUE, val |-> "null", exc |-> "BadRequest"]}
    ELSE {[raised |-> FALSE, val |-> r.body, exc |-> ""]}

\* Python's truth value of a parsed JSON value (`not data`).
Truthy(r, tok) ==
    CASE tok \in {"null", "false", "num_0", "str_empty", "list_empty", "obj_empty"} -> FALSE
      [] tok = "obj" -> r.has_bounds \/ r.has_name \/ r.has_other
      [] OTHER -> TRUE

\* `'bounds' in data`: "yes", "no", or the exception it raises.
ContainsBounds(r, tok) ==
    CASE JType(tok) \in {"num", "bool", "null"} -> "TypeError"
      [] tok = "obj" -> IF r.has_bounds THEN "yes" ELSE "no"
      [] tok \in {"str_xboundsx", "list_bounds"} -> "yes"
      [] OTHER -> "no"

\* Whether `bounds[:2]` evaluates (a str or a list) or raises.
Sliceable(tok) == JType(tok) \in {"str", "list"}

\* The routes of the application: path -> the methods its decorator names.
RouteMethods(path) ==
    CASE path = "/analyze-field" -> {"POST", "OPTIONS"}
      [] path \in {"/", "/test-satellite", "/weather", "/field-history", "/health"} -> {"GET"}
      [] OTHER -> {}

Handler(path) ==
    CASE path = "/" -> "home"
      [] path = "/test-satellite" -> "test_satellite"
      [] path = "/analyze-field" -> "analyze_field"
      [] path = "/weather" -> "weather"
      [] path = "/field-history" -> "field_history"
      [] path = "/health" -> "health_check"

\* Flask's dispatch of a request: the handler, the 404 handler, or a response
\* of the framework's own (405; the automatic OPTIONS of a route that does not
\* name OPTIONS).
Route(r) ==
    IF RouteMethods(r.path) = {} THEN "not_found"
    ELSE IF r.method \in RouteMethods(r.path) THEN Handler(r.path)
    ELSE IF r.method = "OPTIONS" THEN "auto_options"
    ELSE "method_not_allowed"

\* ----------------------------------------------------------- responses

NoName == [given |-> FALSE, text |-> "", num |-> 0]

NoResp ==
    [code |-> 0, kind |-> "none", status |-> "", route |-> "", message |-> "",
     name |-> NoName, value |-> 0, class |-> "", interpretation |-> "",
     recommendations |-> <<>>, mean_ndvi |-> 0, min_ndvi |-> 0, max_ndvi |-> 0,
     field_id |-> "", total_entries |-> 0, history |-> <<>>, trend |-> ""]

Json(code, status, route) ==
    [NoResp EXCEPT !.code = code, !.kind = "json", !.status = status, !.route = route]

\* The response analyze_field builds from its locals.
AnalyzeResponse(field_name, v) ==
    [Json(200, "success", "analyze_field") EXCEPT
        !.name = field_name,
        !.value = v,
        !.class = get_ndvi_color(v)[3],
        !.interpretation = get_ndvi_interpretation(v),
        !.recommendations = Recommendations(v),
        !.mean_ndvi = v,
        !.min_ndvi = MinNdvi(v),
        !.max_ndvi = MaxNdvi(v)]

NoBounds == [Json(400, "error", "analyze_field") EXCEPT !.message = "No field bounds provided"]

\* The except clause answering with a status of its own.
AnalyzeErrorFailed(exc) == [Json(500, "failed", "analyze_field") EXCEPT !.message = exc]

\* The except clause of analyze_field.
AnalyzeError(exc) == [Json(500, "error", "analyze_field") EXCEPT !.message = exc]

\* The fixed responses: the 404 handler's, Flask's own 405 page (HTML, no JSON
\* body) and automatic OPTIONS answer (200, empty body), and the four handlers
\* that take no input.
NotFoundResponse == [Json(404, "error", "not_found") EXCEPT !.message = "Endpoint not found"]
MethodNotAllowedResponse == [NoResp EXCEPT !.code = 405, !.kind = "html", !.route = "framework"]
AutoOptionsResponse == [NoResp EXCEPT !.code = 200, !.kind = "empty", !.route = "framework"]
HomeResponse == Json(200, "success", "home")
TestSatelliteResponse == Json(200, "success", "test_satellite")
WeatherResponse == Json(200, "success", "weather")
HealthResponse == Json(200, "healthy", "health_check")

\* The trend with >= for >.
TrendNotLower(h) ==
    IF Len(h) >= 2
    THEN IF h[Len(h)].ndvi >= h[1].ndvi THEN "improving" ELSE "stable"
    ELSE "insufficient data"

\* The trend of a history, as field_history computes it.
Trend(h) ==
    IF Len(h) >= 2
    THEN IF h[Len(h)].ndvi > h[1].ndvi THEN "improving" ELSE "stable"
    ELSE "insufficient data"

FieldId(r) == IF r.field_id = "absent" THEN "1" ELSE r.field_id

\* The response field_history builds from the sorted history.
FieldHistoryResponse(r, h) ==
    [Json(200, "success", "field_history") EXCEPT
        !.field_id = FieldId(r),
        !.total_entries = Len(h),
        !.history = h,
        !.trend = Trend(h)]

\* The loop count of field_history: range(8).
HistoryCount == 8
\* timedelta(days=90)
Lookback == 90
\* timedelta(days=i * 12)
Spacing == 12

\* One entry of the history: the sample of loop index k, from random() = r thousandths
\* and the rounding v of its NDVI.
RawNdvi(r) == 300 + (r * 500) \div 1000

HistoryEntry(base_date, k, r, v) ==
    [date |-> StrfDate(base_date + k * Spacing),
     ndvi |-> v,
     health |-> HealthLabel(RawNdvi(r))]

\* ------------------------------------------------------------- actions

NoClassification == [class |-> "", color |-> "", label |-> "", interpretation |-> ""]

InitCommon ==
    /\ now \in ClockDays
    /\ pc = [t \in Workers |-> "idle"]
    /\ req = [t \in Workers |-> NoRequest]
    /\ data = [t \in Workers |-> "null"]
    /\ ndvi = [t \in Workers |-> 0]
    /\ fname = [t \in Workers |-> NoName]
    /\ base = [t \in Workers |-> 0]
    /\ i = [t \in Workers |-> 0]
    /\ history = [t \in Workers |-> <<>>]
    /\ resp = [t \in Workers |-> NoResp]
    /\ obs = [t \in Workers |-> <<>>]
    /\ served = 0
    /\ cin = 0
    /\ cout = NoClassification

\* One request in flight at a time.
Init == InitCommon /\ active = {"w1"}

\* Two requests in flight.
InitThreaded == InitCommon /\ active = Workers

Locals == <<data, ndvi, fname, base, i, history>>

\* A handler returns: the response is the thread's result.
Return(t, r) ==
    /\ resp' = [resp EXCEPT ![t] = r]
    /\ pc' = [pc EXCEPT ![t] = "done"]

Observe(t, xs) == obs' = [obs EXCEPT ![t] = @ \o xs]

\* The server accepts a request and hands it to a thread.
Receive(t) ==
    /\ pc[t] = "idle"
    /\ served < MaxRequests
    /\ \E r \in Requests : req' = [req EXCEPT ![t] = r]
    /\ served' = served + 1
    /\ pc' = [pc EXCEPT ![t] = "dispatch"]
    /\ UNCHANGED <<now, active, Locals, resp, obs, cin, cout>>

\* Flask routes the request.
Dispatch(t) ==
    /\ pc[t] = "dispatch"
    /\ pc' = [pc EXCEPT ![t] = Route(req[t])]
    /\ UNCHANGED <<now, active, req, Locals, resp, obs, served, cin, cout>>

\* @app.errorhandler(404)
not_found(t) ==
    /\ pc[t] = "not_found"
    /\ Return(t, NotFoundResponse)
    /\ UNCHANGED <<now, active, req, Locals, obs, served, cin, cout>>

MethodNotAllowed(t) ==
    /\ pc[t] = "method_not_allowed"
    /\ Return(t, MethodNotAllowedResponse)
    /\ UNCHANGED <<now, active, req, Locals, obs, served, cin, cout>>

AutoOptions(t) ==
    /\ pc[t] = "auto_options"
    /\ Return(t, AutoOptionsResponse)
    /\ UNCHANGED <<now, active, req, Locals, obs, served, cin, cout>>

home(t) ==
    /\ pc[t] = "home"
    /\ Return(t, HomeResponse)
    /\ UNCHANGED <<now, active, req, Locals, obs, served, cin, cout>>

test_satellite(t) ==
    /\ pc[t] = "test_satellite"
    /\ Return(t, TestSatelliteResponse)
    /\ UNCHANGED <<now, active, req, Locals, obs, served, cin, cout>>

weather(t) ==
    /\ pc[t] = "weather"
    /\ Return(t, WeatherResponse)
    /\ UNCHANGED <<now, active, req, Locals, obs, served, cin, cout>>

health_check(t) ==
    /\ pc[t] = "health_check"
    /\ Return(t, HealthResponse)
    /\ UNCHANGED <<now, active, req, Locals, obs, served, cin, cout>>

\* The acknowledgement of a CORS preflight.
Preflight == Json(200, "ok", "analyze_field")

\* analyze_field, lines 68-73.
AnalyzeEntry(t) ==
    /\ pc[t] = "analyze_field"
    /\ IF req[t].method = "OPTIONS"
       THEN /\ Return(t, Preflight)
            /\ UNCHANGED <<data, obs>>
       ELSE \E o \in GetJson(req[t]) :
              /\ Observe(t, <<IF o.raised THEN 1 ELSE 0>>)
              /\ IF o.raised
                 THEN Return(t, AnalyzeError(o.exc)) /\ UNCHANGED data
                 ELSE /\ data' = [data EXCEPT ![t] = o.val]
                      /\ pc' = [pc EXCEPT ![t] = "check_bounds"]
                      /\ UNCHANGED resp
    /\ UNCHANGED <<now, active, req, ndvi, fname, base, i, history, served, cin, cout>>

\* `if not data or 'bounds' not in data`: "reject", "accept", or the
\* exception the membership test raises.
CheckBounds(r, d) ==
    IF ~Truthy(r, d) THEN "reject"
    ELSE IF ContainsBounds(r, d) = "no" THEN "reject"
    ELSE IF ContainsBounds(r, d) = "yes" THEN "accept"
    ELSE ContainsBounds(r, d)

\* analyze_field, lines 75-79.
AnalyzeCheck(t) ==
    /\ pc[t] = "check_bounds"
    /\ LET c == CheckBounds(req[t], data[t])
       IN  IF c = "reject" THEN Return(t, NoBounds)
           ELSE IF c = "accept"
           THEN pc' = [pc EXCEPT ![t] = "read_fields"] /\ UNCHANGED resp
           ELSE Return(t, AnalyzeError(c))
    /\ UNCHANGED <<now, active, req, Locals, obs, served, cin, cout>>

\* data.get('name', f'Field_{random.randint(1000, 9999)}'), the default drawn
\* whether or not it is used.
FieldName(r, k) ==
    IF r.has_name THEN [given |-> TRUE, text |-> r.name, num |-> 0]
    ELSE [given |-> FALSE, text |-> "Field_", num |-> k]

\* Lines 81-85: "ok", or the exception raised: data.get on a value that is
\* no dict, or the slice bounds[:2] of the debug print on a value that has none.
ReadFields(r, d) ==
    IF d # "obj" THEN "AttributeError"
    ELSE IF ~Sliceable(r.bounds) THEN "TypeError"
    ELSE "ok"

\* analyze_field, lines 81-85.
AnalyzeFields(t) ==
    /\ pc[t] = "read_fields"
    /\ IF data[t] # "obj"
       THEN Return(t, AnalyzeError(ReadFields(req[t], data[t]))) /\ UNCHANGED <<fname, obs>>
       ELSE \E k \in RandintDraws :
              /\ Observe(t, <<k>>)
              /\ fname' = [fname EXCEPT ![t] = FieldName(req[t], k)]
              /\ IF ReadFields(req[t], data[t]) = "ok"
                 THEN pc' = [pc EXCEPT ![t] = "draw_ndvi"] /\ UNCHANGED resp
                 ELSE Return(t, AnalyzeError(ReadFields(req[t], data[t])))
    /\ UNCHANGED <<now, active, req, data, ndvi, base, i, history, served, cin, cout>>

\* analyze_field, line 88: ndvi = round(random.uniform(0.25, 0.85), 2)
AnalyzeNdvi(t) ==
    /\ pc[t] = "draw_ndvi"
    /\ \E raw \in UniformDraws : \E v \in Round2(raw) :
          /\ ndvi' = [ndvi EXCEPT ![t] = v]
          /\ Observe(t, <<raw, v>>)
    /\ pc' = [pc EXCEPT ![t] = "respond"]
    /\ UNCHANGED <<now, active, req, data, fname, base, i, history, resp, served, cin, cout>>

\* analyze_field, lines 91-175.
AnalyzeRespond(t) ==
    /\ pc[t] = "respond"
    /\ Return(t, AnalyzeResponse(fname[t], ndvi[t]))
    /\ UNCHANGED <<now, active, req, Locals, obs, served, cin, cout>>

\* field_history, lines 243-246.
FieldHistoryBegin(t) ==
    /\ pc[t] = "field_history"
    /\ base' = [base EXCEPT ![t] = now - Lookback]
    /\ history' = [history EXCEPT ![t] = <<>>]
    /\ i' = [i EXCEPT ![t] = 0]
    /\ Observe(t, <<now>>)
    /\ pc' = [pc EXCEPT ![t] = "history_loop"]
    /\ UNCHANGED <<now, active, req, data, ndvi, fname, resp, served, cin, cout>>

\* history.append(e) with `history` a module-level list: every thread's
\* `history` is that one list.
HistoryAppendShared(h, t, e) == [u \in DOMAIN h |-> Append(h[u], e)]

\* history.append(e) on thread t's list: `history` is a local of the call.
HistoryAppend(h, t, e) == [h EXCEPT ![t] = Append(@, e)]

\* field_history, lines 248-259: one iteration.
FieldHistoryIter(t) ==
    /\ pc[t] = "history_loop"
    /\ i[t] < HistoryCount
    /\ \E r \in RandomDraws : \E v \in Round2(RawNdvi(r)) :
          /\ history' = HistoryAppend(history, t, HistoryEntry(base[t], i[t], r, v))
          /\ Observe(t, <<r, v>>)
    /\ i' = [i EXCEPT ![t] = @ + 1]
    /\ UNCHANGED <<now, active, pc, req, data, ndvi, fname, base, resp, served, cin, cout>>

\* field_history, lines 261-280: sort, trend, response.
FieldHistoryFinish(t) ==
    /\ pc[t] = "history_loop"
    /\ i[t] = HistoryCount
    /\ history' = [history EXCEPT ![t] = SortByDate(@)]
    /\ Return(t, FieldHistoryResponse(req[t], SortByDate(history[t])))
    /\ UNCHANGED <<now, active, req, data, ndvi, fname, base, i, obs, served, cin, cout>>

\* The response has been sent; the thread and its locals are gone.
Finish(t) ==
    /\ pc[t] = "done"
    /\ pc' = [pc EXCEPT ![t] = "idle"]
    /\ req' = [req EXCEPT ![t] = NoRequest]
    /\ data' = [data EXCEPT ![t] = "null"]
    /\ ndvi' = [ndvi EXCEPT ![t] = 0]
    /\ fname' = [fname EXCEPT ![t] = NoName]
    /\ base' = [base EXCEPT ![t] = 0]
    /\ i' = [i EXCEPT ![t] = 0]
    /\ history' = [history EXCEPT ![t] = <<>>]
    /\ resp' = [resp EXCEPT ![t] = NoResp]
    /\ obs' = [obs EXCEPT ![t] = <<>>]
    /\ UNCHANGED <<now, active, served, cin, cout>>

\* Time passes.
Tick ==
    /\ \E d \in ClockDays : d > now /\ now' = d
    /\ UNCHANGED <<active, pc, req, Locals, resp, obs, served, cin, cout>>

Next ==
    \/ Tick
    \/ \E t \in active : Receive(t)
    \/ \E t \in active : Dispatch(t)
    \/ \E t \in active : not_found(t)
    \/ \E t \in active : MethodNotAllowed(t)
    \/ \E t \in active : AutoOptions(t)
    \/ \E t \in active : home(t)
    \/ \E t \in active : test_satellite(t)
    \/ \E t \in active : weather(t)
    \/ \E t \in active : health_check(t)
    \/ \E t \in active : AnalyzeEntry(t)
    \/ \E t \in active : AnalyzeCheck(t)
    \/ \E t \in active : AnalyzeFields(t)
    \/ \E t \in active : AnalyzeNdvi(t)
    \/ \E t \in active : AnalyzeRespond(t)
    \/ \E t \in active : FieldHistoryBegin(t)
    \/ \E t \in active : FieldHistoryIter(t)
    \/ \E t \in active : FieldHistoryFinish(t)
    \/ \E t \in active : Finish(t)

Spec == Init /\ [][Next]_vars

SpecThreaded == InitThreaded /\ [][Next]_vars

\* ------------------------------------------- the classifiers on their own

Classification(v) ==
    [class |-> get_ndvi_color(v)[3], color |-> get_ndvi_color(v)[1],
     label |-> get_ndvi_color(v)[2], interpretation |-> get_ndvi_interpretation(v)]

\* A caller holds an NDVI value.
InitClassify ==
    /\ now \in ClockDays
    /\ active = {}
    /\ pc = [t \in Workers |-> "idle"]
    /\ req = [t \in Workers |-> NoRequest]
    /\ data = [t \in Workers |-> "null"]
    /\ ndvi = [t \in Workers |-> 0]
    /\ fname = [t \in Workers |-> NoName]
    /\ base = [t \in Workers |-> 0]
    /\ i = [t \in Workers |-> 0]
    /\ history = [t \in Workers |-> <<>>]
    /\ resp = [t \in Workers |-> NoResp]
    /\ obs = [t \in Workers |-> <<>>]
    /\ served = 0
    /\ cin \in 0..ClassifyMax
    /\ cout = NoClassification

\* The classifiers are applied to it.
Classify ==
    /\ cout = NoClassification
    /\ cout' = Classification(cin)
    /\ UNCHANGED <<now, active, pc, req, Locals, resp, obs, served, cin>>

NextClassify == Classify

SpecClassify == InitClassify /\ [][NextClassify]_vars

\* ============================================================ properties

Finished(t) == t \in active /\ pc[t] = "done"

IsAnalyzePost(r) == r.method = "POST" /\ r.path = "/analyze-field"

AnalyzeSucceeded(t) ==
    Finished(t) /\ resp[t].route = "analyze_field" /\ resp[t].code = 200
                /\ req[t].method = "POST"

HistoryReturned(t) == Finished(t) /\ resp[t].route = "field_history"

\* ---- C1
\* The body carries no `bounds` key: no JSON body, an unparseable one, null,
\* an empty object, or an object with other keys only.
NoBoundsKey(r) ==
    \/ ~r.ctype_json
    \/ r.body \in {"malformed", "null", "obj_empty"}
    \/ r.body = "obj" /\ ~r.has_bounds

\* C1: every POST to /analyze-field whose body carries no `bounds` key is
\* answered 400 with status "error", never 200 and never 500.
C1_NoBoundsIs400 ==
    \A t \in active :
        (Finished(t) /\ IsAnalyzePost(req[t]) /\ NoBoundsKey(req[t]))
            => (resp[t].code = 400 /\ resp[t].status = "error")

\* ---- C2
\* C2 as stated: every response is a JSON object whose status is "success" or
\* "error".
C2_StatusSuccessOrError ==
    \A t \in active :
        Finished(t) => (resp[t].kind = "json" /\ resp[t].status \in {"success", "error"})

\* C2, amended: every response a handler or the 404 handler of the program
\* returns is a JSON object with a status; the status is "healthy" for
\* GET /health, "ok" for OPTIONS /analyze-field, and "success" or "error" for
\* everything else. The only responses that are no JSON objects are the
\* framework's own: 405 for a method a route does not name, and the automatic
\* OPTIONS answer of a route that does not name OPTIONS.
C2_StatusField ==
    \A t \in active :
        Finished(t) =>
            LET route == Route(req[t])
            IN  IF route \in {"method_not_allowed", "auto_options"}
                THEN resp[t].kind # "json"
                ELSE /\ resp[t].kind = "json"
                     /\ resp[t].status =
                          (IF route = "health_check" THEN "healthy"
                           ELSE IF route = "analyze_field" /\ req[t].method = "OPTIONS" THEN "ok"
                           ELSE IF resp[t].code = 200 THEN "success"
                           ELSE "error")
                     /\ resp[t].code \in {200, 400, 404, 500}

C2_Witness ==
    \E t \in active :
        /\ Finished(t)
        /\ req[t].path = "/health"
        /\ resp[t].kind = "json"
        /\ resp[t].status = "healthy"

\* ---- C3
BandRank(class) ==
    CASE class = "poor" -> 0
      [] class = "moderate" -> 1
      [] class = "good" -> 2
      [] class = "excellent" -> 3

\* C3: get_ndvi_color returns exactly one class tag for every NDVI value in
\* [0, 1], by strict comparisons: excellent iff v > 0.7, good iff
\* 0.5 < v <= 0.7, moderate iff 0.3 < v <= 0.5, poor iff v <= 0.3; the band
\* never decreases as v increases.
C3_FourBands ==
    cout # NoClassification =>
        /\ cout.class \in {"excellent", "good", "moderate", "poor"}
        /\ (cout.class = "excellent") <=> (cin > 700)
        /\ (cout.class = "good") <=> (500 < cin /\ cin <= 700)
        /\ (cout.class = "moderate") <=> (300 < cin /\ cin <= 500)
        /\ (cout.class = "poor") <=> (cin <= 300)
        /\ \A w \in 0..cin : BandRank(get_ndvi_color(w)[3]) <= BandRank(cout.class)

C3_Witness == cin = 700 /\ cout.class = "good"

\* ---- C4
\* C4: a POST whose JSON object holds a `bounds` key is answered 200 with
\* status "success", whatever the value of `bounds`.
C4_BoundsPresenceOnly ==
    \A t \in active :
        (Finished(t) /\ IsAnalyzePost(req[t]) /\ req[t].ctype_json
            /\ req[t].body = "obj" /\ req[t].has_bounds)
            => (resp[t].code = 200 /\ resp[t].status = "success")

\* ---- C5
\* C5: in every successful /analyze-field response the NDVI value lies in
\* [0.25, 0.85], min_ndvi <= value <= max_ndvi, min_ndvi >= 0.1 and
\* max_ndvi <= 1.0; min is value - 0.2 clamped below at 0.1, max is
\* value + 0.15 clamped above at 1.0.
C5_NdviStatistics ==
    \A t \in active :
        AnalyzeSucceeded(t) =>
            LET r == resp[t]
            IN  /\ 250 <= r.value /\ r.value <= 850
                /\ r.mean_ndvi = r.value
                /\ r.min_ndvi <= r.value /\ r.value <= r.max_ndvi
                /\ r.min_ndvi >= 100 /\ r.max_ndvi <= 1000
                /\ r.min_ndvi = (IF r.value - 200 < 100 THEN 100 ELSE r.value - 200)
                /\ r.max_ndvi = (IF r.value + 150 > 1000 THEN 1000 ELSE r.value + 150)

\* The lower clamp at work: the smallest NDVI, with min_ndvi held at 0.1.
C5_Witness ==
    \E t \in active :
        AnalyzeSucceeded(t) /\ resp[t].value = 250 /\ resp[t].min_ndvi = 100

\* ---- C6
\* The day number of a civil date.
DaysFromCivil(y0, m, d) ==
    LET y == IF m <= 2 THEN y0 - 1 ELSE y0
        era == y \div 400
        yoe == y - era * 400
        doy == (153 * (IF m > 2 THEN m - 3 ELSE m + 9) + 2) \div 5 + d - 1
        doe == yoe * 365 + yoe \div 4 - yoe \div 100 + doy
    IN  era * 146097 + doe - 719468

\* The day number a "YYYY-MM-DD" string reads as.
DaysFromDate(s) ==
    DaysFromCivil(s[1] * 1000 + s[2] * 100 + s[3] * 10 + s[4],
                  s[6] * 10 + s[7], s[9] * 10 + s[10])

\* C6: every /field-history response has total_entries = 8 and 8 entries
\* whose dates are strictly ascending, 12 days apart, the first 90 days before
\* the clock reading of the request; and the sort by date leaves the order in
\* which the entries were built unchanged.
C6_EightEntriesInOrder ==
    \A t \in active :
        /\ HistoryReturned(t) =>
             LET h == resp[t].history
             IN  /\ resp[t].total_entries = 8
                 /\ Len(h) = 8
                 /\ \A k \in 1..7 : StrLess(h[k].date, h[k + 1].date)
                 /\ \A k \in 1..8 : DaysFromDate(h[k].date) = obs[t][1] - 90 + 12 * (k - 1)
        /\ (pc[t] = "history_loop" /\ i[t] = 8) =>
             SortByDate(history[t]) = history[t]

\* A history that runs over the turn of a year: its first and last entries
\* differ in the last digit of the year.
C6_Witness ==
    \E t \in active :
        /\ HistoryReturned(t)
        /\ Len(resp[t].history) = 8
        /\ resp[t].history[1].date[4] # resp[t].history[8].date[4]

\* ---- C7
\* What a request is answered with, as a function of the request r and of the
\* random draws and clock readings o its handler consumed, in order.
AnalyzeResult(r, o) ==
    IF r.method = "OPTIONS" THEN Preflight
    ELSE LET out == CHOOSE x \in GetJson(r) : x.raised = (o[1] = 1)
         IN  IF out.raised THEN AnalyzeError(out.exc)
             ELSE IF CheckBounds(r, out.val) = "reject" THEN NoBounds
             ELSE IF CheckBounds(r, out.val) # "accept"
             THEN AnalyzeError(CheckBounds(r, out.val))
             ELSE IF ReadFields(r, out.val) # "ok"
             THEN AnalyzeError(ReadFields(r, out.val))
             ELSE AnalyzeResponse(FieldName(r, o[2]), o[4])

HistoryResult(r, o) ==
    FieldHistoryResponse(r,
        SortByDate([k \in 1..8 |->
            HistoryEntry(o[1] - 90, k - 1, o[2 * k], o[2 * k + 1])]))

Respond(r, o) ==
    LET route == Route(r)
    IN  CASE route = "not_found" -> NotFoundResponse
          [] route = "method_not_allowed" -> MethodNotAllowedResponse
          [] route = "auto_options" -> AutoOptionsResponse
          [] route = "home" -> HomeResponse
          [] route = "test_satellite" -> TestSatelliteResponse
          [] route = "weather" -> WeatherResponse
          [] route = "health_check" -> HealthResponse
          [] route = "analyze_field" -> AnalyzeResult(r, o)
          [] route = "field_history" -> HistoryResult(r, o)

\* Everything a request's handler holds.
Frame(t) ==
    <<pc[t], req[t], data[t], ndvi[t], fname[t], base[t], i[t], history[t],
      resp[t], obs[t]>>

ResponseDetermined ==
    \A t \in active : Finished(t) => resp[t] = Respond(req[t], obs[t])

FramesIsolated ==
    \A t, u \in active :
        t # u => ~(Frame(t)' # Frame(t) /\ Frame(u)' # Frame(u))

C8_HealthMatchesReported ==
    \A t \in active :
        HistoryReturned(t) =>
            \A k \in 1..Len(resp[t].history) :
                LET e == resp[t].history[k]
                IN  /\ (e.health = "Good") <=> (e.ndvi > 500)
                    /\ (e.health = "Moderate") <=> (300 < e.ndvi /\ e.ndvi <= 500)
                    /\ (e.health = "Poor") <=> (e.ndvi <= 300)

\* ---- C9
\* C9: in every successful /analyze-field response the class tag, the
\* recommendation list and the interpretation are picked by the same band of
\* the NDVI value; excellent, good and moderate have a list of 4, poor the
\* list of 5 and the "Low vegetation" text; the "Very low or no vegetation"
\* text never appears.
C9_BandsAgree ==
    \A t \in active :
        AnalyzeSucceeded(t) =>
            LET r == resp[t]
                v == r.value
            IN  /\ v > 700 =>
                     /\ r.class = "excellent"
                     /\ r.recommendations = RecsExcellent
                     /\ r.interpretation = InterpVeryHigh
                /\ (500 < v /\ v <= 700) =>
                     /\ r.class = "good"
                     /\ r.recommendations = RecsGood
                     /\ r.interpretation = InterpHigh
                /\ (300 < v /\ v <= 500) =>
                     /\ r.class = "moderate"
                     /\ r.recommendations = RecsModerate
                     /\ r.interpretation = InterpModerate
                /\ v <= 300 =>
                     /\ r.class = "poor"
                     /\ r.recommendations = RecsPoor
                     /\ r.interpretation = InterpLow
                /\ Len(r.recommendations) = (IF r.class = "poor" THEN 5 ELSE 4)
                /\ r.interpretation # InterpNone

\* A response in the poor band, at its upper edge.
C9_Witness ==
    \E t \in active :
        /\ AnalyzeSucceeded(t)
        /\ resp[t].value = 300
        /\ resp[t].class = "poor"
        /\ resp[t].interpretation = InterpLow

\* ---- C10
\* C10: in every /field-history response trend is "improving" iff the
\* reported ndvi of the last entry is strictly greater than that of the first,
\* and "stable" otherwise; "insufficient data" is never returned.
C10_Trend ==
    \A t \in active :
        HistoryReturned(t) =>
            LET h == resp[t].history
            IN  /\ Len(h) = 8
                /\ resp[t].trend \in {"improving", "stable"}
                /\ (resp[t].trend = "improving") <=> (h[8].ndvi > h[1].ndvi)

\* First and last entries report the same ndvi: stable.
C10_Witness ==
    \E t \in active :
        /\ HistoryReturned(t)
        /\ Len(resp[t].history) = 8
        /\ resp[t].history[8].ndvi = resp[t].history[1].ndvi
        /\ resp[t].trend = "stable"

====
